---- MODULE Spec2Model ----
(***************************************************************************)
(* gamux: the push-to-talk orchestrator (gamux/app.py) and the energy      *)
(* based voice activity detector (gamux/voice/vad.py).                     *)
(*                                                                         *)
(* Sample amplitudes and the RMS threshold are written in tenths (5 is     *)
(* 0.5).  A chunk is `len` samples that repeat the short pattern `pat`, so *)
(* mean(chunk**2) is the mean of the squares of the pattern.  Python lists *)
(* are objects: a list is an index into `heap`, so that aliasing between   *)
(* the detector's buffer and a returned buffer is visible.                 *)
(***************************************************************************)
EXTENDS Integers, Sequences, FiniteSets, TLC

\* ---- bounds ----
MaxChunks == 8
NumLists == 4
MaxRaw == 3
MaxStops == 2
MaxAudio == 52
MaxPending == 2
MaxOddFrames == 1
MaxUtterances == 4

\* ---- program constants ----
SAMPLE_RATE == 16000
CHUNK_SAMPLES == 480
DefaultMinSpeechMs == 100

None == -1
ListIds == 0 .. (NumLists - 1)
NoChunk == [id |-> 0, pat |-> <<>>, len |-> 0]

VADState == {"SILENCE", "SPEECH", "TRAILING"}
Buttons == {"ZL", "A", "B"}
Axes == {"left_x"}
PREFIX == "[Gamux]"

\* chunk contents fed to a detector: silence, low noise, speech at 0.5 RMS
Patterns == {<<0, 0>>, <<0, 5>>, <<-5, 5>>}
\* chunk contents the audio source of the App delivers
AppPatterns == {<<0, 0>>, <<-5, 5>>}

\* AppConfig.bindings
Bindings == [k \in {"A", "ZL_A", "ZL_B"} |->
               IF k = "A" THEN "send_enter"
               ELSE IF k = "ZL_A" THEN "send_escape" ELSE "confirm"]

\* configurations of the App (VoiceConfig, tenths / ms)
AppThresholds == {5}
AppSilenceMs == {100}
\* configurations of a detector used on its own
VadThresholds == {1, 5}
VadSilenceMs == {30, 60, 110}
VadMinSpeechMs == {10, 100}

VARIABLES
  _vad,          \* the VoiceActivityDetector: cfg, state, buffer (a list id), counters
  heap,          \* list id -> contents of that Python list
  result,        \* the VADResult returned by the last process() call
  held,          \* list id of the last emitted audio_buffer, kept by the caller
  held_copy,     \* what that list held when it was returned
  _ptt_active,   \* App._ptt_active
  _ptt_audio,    \* App._ptt_audio
  _current,      \* StatusManager._current
  binding_key,   \* the binding key computed by the last non-PTT press
  dispatched,    \* the action string handed to the registry by the last press
  transcribed,   \* the audio handed to the recognizer by the last submission
  taken,         \* number of chunks taken from the source so far
  call,          \* the last operation on the detector and its chunk
  run,           \* the chunks passed to process() since it was last called in SILENCE
  press_at,      \* value of taken when the last ZL press was handled
  zl_down,       \* the last handled ZL event was a press
  stale,         \* a ZL press after a release found chunks of the earlier hold buffered
  event,         \* the last controller event handled
  started_at,    \* id of the last chunk for which process() returned speech_started
  _controller,   \* the ControllerReader: device, queue, read task, running, d-pad slots
  rd_stop,       \* position of a stop() call on the reader: "idle" or "awaiting"
  rd_consumer,   \* a consumer of ControllerReader.events()
  rd_obs,        \* what an observer of the reader's raw input and queue has recorded
  _source,       \* the AudioSource: variant, queue, stream, receive task, scheduled puts
  src_stop,      \* position of a stop() call on the source
  src_consumer,  \* a consumer of AudioSource.chunks()
  src_obs,       \* what an observer of the source's queue has recorded
  _recognizer,   \* the VoiceRecognizer: model, callback, pending tasks, caller's position
  utterances,    \* per submitted utterance: was a model loaded, callback invocations
  sink_calls,    \* calls of the registry made while the last controller event was handled
  _registry,     \* ActionRegistry._handlers: the action names that have a handler
  reg_call,      \* the last call of dispatch_by_string made on the registry directly
  norm_call,     \* the last two calls of _normalize: configuration, values, results
  app_run        \* App.run(): its position, the contexts entered, the loops, the calls made

vadvars == <<_vad, heap, result, held, held_copy, started_at>>
appvars == <<_ptt_active, _ptt_audio, _current, binding_key, dispatched>>
ghostvars == <<press_at, zl_down, stale, event>>
vars == <<_vad, heap, result, held, held_copy, _ptt_active, _ptt_audio, _current,
          binding_key, dispatched, transcribed, taken, call, run, press_at,
          zl_down, stale, event, started_at, _controller, rd_stop, rd_consumer, rd_obs,
          _source, src_stop, src_consumer, src_obs,
          _recognizer, utterances, sink_calls, _registry, reg_call, norm_call, app_run>>
rdvars == <<_controller, rd_stop, rd_consumer, rd_obs>>
srcvars == <<_source, src_stop, src_consumer, src_obs>>
oldvars == <<_vad, heap, result, held, held_copy, _ptt_active, _ptt_audio, _current,
             binding_key, dispatched, transcribed, taken, call, run, press_at,
             zl_down, stale, event, started_at,
             _recognizer, utterances, sink_calls, _registry, reg_call, norm_call, app_run>>
recvars == <<_recognizer, utterances>>
regvars == <<_registry, reg_call>>
auxvars == <<norm_call, app_run>>
runrest == <<vadvars, run, call, appvars, transcribed, taken, ghostvars, recvars,
             sink_calls, regvars, norm_call, rdvars, srcvars>>

\* ---------------- helpers ----------------
Max(a, b) == IF a >= b THEN a ELSE b

RECURSIVE SumSq(_)
SumSq(s) == IF s = <<>> THEN 0 ELSE Head(s) * Head(s) + SumSq(Tail(s))

RECURSIVE SumLen(_)
SumLen(buf) == IF buf = <<>> THEN 0 ELSE Head(buf).len + SumLen(Tail(buf))

\* a new list object: the lowest id that nothing refers to
Alloc(live) == CHOOSE i \in ListIds \ live : \A j \in ListIds \ live : i <= j

\* lists nothing refers to any more are freed
Collect(h, live) == [i \in ListIds |-> IF i \in live THEN h[i] ELSE <<>>]

\* ---------------- VoiceActivityDetector ----------------
VADConfig(threshold, silence_duration_ms, min_speech_ms) ==
  [threshold |-> threshold, silence_duration_ms |-> silence_duration_ms,
   min_speech_ms |-> min_speech_ms, sample_rate |-> SAMPLE_RATE]

\* int(silence_duration_ms / 1000 * sample_rate / 480), then max(1, .)
silence_threshold_chunks(c) ==
  Max(1, (c.silence_duration_ms * c.sample_rate) \div (1000 * 480))

\* int(min_speech_ms / 1000 * sample_rate)
min_samples(c) == (c.min_speech_ms * c.sample_rate) \div 1000

VoiceActivityDetector(c, b) ==
  [cfg |-> c, state |-> "SILENCE", buffer |-> b, silence_samples |-> 0,
   speech_samples |-> 0, silence_threshold_chunks |-> silence_threshold_chunks(c)]

\* variant: the comparison with the threshold is strict
is_speech_strict(chunk, c) ==
  SumSq(chunk.pat) > c.threshold * c.threshold * Len(chunk.pat)

\* rms = sqrt(mean(chunk**2)); rms >= threshold, compared on the squares
is_speech(chunk, c) ==
  SumSq(chunk.pat) >= c.threshold * c.threshold * Len(chunk.pat)

\* variant: the speech-sample counter is not cleared
reset_keep_counter(d, h) ==
  [vad |-> [d EXCEPT !.state = "SILENCE", !.silence_samples = 0],
   heap |-> [h EXCEPT ![d.buffer] = <<>>]]

reset(d, h) ==
  [vad |-> [d EXCEPT !.state = "SILENCE", !.silence_samples = 0, !.speech_samples = 0],
   heap |-> [h EXCEPT ![d.buffer] = <<>>]]

\* VADResult(): the default audio_buffer is a new empty list
VADResult(h, live) ==
  LET r == Alloc(live)
  IN  [result |-> [speech_started |-> FALSE, speech_ended |-> FALSE, audio_buffer |-> r],
       heap |-> [h EXCEPT ![r] = <<>>]]

\* self._buffer = [chunk]
new_buffer(h, chunk, live) ==
  LET b == Alloc(live) IN [id |-> b, heap |-> [h EXCEPT ![b] = <<chunk>>]]

\* variant: the detector's own list is returned instead of a copy
list_copy_alias(h, src, live) == [id |-> src, heap |-> h]

\* list(self._buffer)
list_copy(h, src, live) ==
  LET c == Alloc(live) IN [id |-> c, heap |-> [h EXCEPT ![c] = h[src]]]

\* the SILENCE branch of process()
process_silence(d, h, r, chunk, keep) ==
  IF is_speech(chunk, d.cfg)
  THEN LET nb == new_buffer(h, chunk, {d.buffer, r.audio_buffer} \cup keep)
       IN  [vad |-> [d EXCEPT !.state = "SPEECH", !.buffer = nb.id,
                              !.speech_samples = chunk.len, !.silence_samples = 0],
            heap |-> nb.heap,
            result |-> [r EXCEPT !.speech_started = TRUE]]
  ELSE [vad |-> d, heap |-> h, result |-> r]

\* variant: the minimum speech duration is not checked
process_end_nomin(d, h, r, keep) ==
  LET cp == list_copy(h, d.buffer, {d.buffer, r.audio_buffer} \cup keep)
      rs == reset(d, cp.heap)
  IN  [vad |-> rs.vad, heap |-> rs.heap,
       result |-> [r EXCEPT !.speech_ended = TRUE, !.audio_buffer = cp.id]]

\* variant: audio_buffer is filled in before the minimum speech duration is checked
process_end_populate(d, h, r, keep) ==
  LET cp == list_copy(h, d.buffer, {d.buffer, r.audio_buffer} \cup keep)
      rs == reset(d, cp.heap)
  IN  [vad |-> rs.vad, heap |-> rs.heap,
       result |-> [r EXCEPT !.speech_ended = (d.speech_samples >= min_samples(d.cfg)),
                            !.audio_buffer = cp.id]]

\* the end of an utterance: the threshold of trailing silence chunks is reached
process_end(d, h, r, keep) ==
  IF d.speech_samples >= min_samples(d.cfg)
  THEN LET cp == list_copy(h, d.buffer, {d.buffer, r.audio_buffer} \cup keep)
           rs == reset(d, cp.heap)
       IN  [vad |-> rs.vad, heap |-> rs.heap,
            result |-> [r EXCEPT !.speech_ended = TRUE, !.audio_buffer = cp.id]]
  ELSE LET rs == reset(d, h)
       IN  [vad |-> rs.vad, heap |-> rs.heap, result |-> r]

\* variant: the trailing silence must exceed the threshold
process_speech_gt(d, h, r, chunk, keep) ==
  LET h1 == [h EXCEPT ![d.buffer] = Append(@, chunk)]
  IN  IF is_speech(chunk, d.cfg)
      THEN [vad |-> [d EXCEPT !.speech_samples = @ + chunk.len, !.silence_samples = 0],
            heap |-> h1, result |-> r]
      ELSE LET d1 == [d EXCEPT !.silence_samples = @ + 1]
           IN  IF d1.silence_samples > d1.silence_threshold_chunks
               THEN process_end(d1, h1, r, keep)
               ELSE [vad |-> d1, heap |-> h1, result |-> r]

\* the SPEECH branch of process()
process_speech(d, h, r, chunk, keep) ==
  LET h1 == [h EXCEPT ![d.buffer] = Append(@, chunk)]
  IN  IF is_speech(chunk, d.cfg)
      THEN [vad |-> [d EXCEPT !.speech_samples = @ + chunk.len, !.silence_samples = 0],
            heap |-> h1, result |-> r]
      ELSE LET d1 == [d EXCEPT !.silence_samples = @ + 1]
           IN  IF d1.silence_samples >= d1.silence_threshold_chunks
               THEN process_end(d1, h1, r, keep)
               ELSE [vad |-> d1, heap |-> h1, result |-> r]

process(d, h, chunk, keep) ==
  LET r0 == VADResult(h, {d.buffer} \cup keep)
  IN  IF d.state = "SILENCE" THEN process_silence(d, r0.heap, r0.result, chunk, keep)
      ELSE IF d.state = "SPEECH" THEN process_speech(d, r0.heap, r0.result, chunk, keep)
      ELSE [vad |-> d, heap |-> r0.heap, result |-> r0.result]

\* np.concatenate(result.audio_buffer): one array, the chunks' samples in order
concatenate(buf) ==
  [samples |-> [i \in 1 .. Len(buf) |-> <<buf[i].id, buf[i].pat>>], size |-> SumLen(buf)]

NoAudio == concatenate(<<>>)

\* ---------------- a caller of the detector ----------------
Chunk(pat) == [id |-> taken + 1, pat |-> pat, len |-> CHUNK_SAMPLES]

\* result = vad.process(chunk); the caller keeps the last emitted buffer
CallProcess(chunk) ==
  LET keep == {held} \ {None}
      p == process(_vad, heap, chunk, keep)
      newheld == IF p.result.speech_ended THEN p.result.audio_buffer ELSE held
  IN  /\ _vad' = p.vad
      /\ result' = p.result
      /\ held' = newheld
      /\ held_copy' = IF p.result.speech_ended THEN p.heap[p.result.audio_buffer]
                      ELSE held_copy
      /\ heap' = Collect(p.heap, {p.vad.buffer, p.result.audio_buffer, newheld} \ {None})
      /\ run' = Append(IF _vad.state = "SILENCE" THEN <<>> ELSE run, chunk)
      /\ call' = [op |-> "process", chunk |-> chunk, from |-> _vad.state]
      /\ started_at' = IF p.result.speech_started THEN chunk.id ELSE started_at

\* vad.reset()
CallReset ==
  LET rs == reset(_vad, heap)
  IN  /\ _vad' = rs.vad
      /\ heap' = rs.heap
      /\ run' = <<>>
      /\ call' = [op |-> "reset", chunk |-> NoChunk, from |-> _vad.state]
      /\ UNCHANGED <<result, held, held_copy, started_at>>

\* ---------------- App ----------------
\* StatusManager.set
status_set(message) == PREFIX \o " " \o message

\* variant: the PTT prefix is never added
make_binding_key_bare(button, ptt) == button

\* f"ZL_{event.button}" if self._ptt_active else str(event.button)
make_binding_key(button, ptt) == IF ptt THEN "ZL_" \o button ELSE button

\* self._config.bindings.get(binding_key)
bindings_get(key) == IF key \in DOMAIN Bindings THEN Bindings[key] ELSE "None"

\* variant: a ZL press does not reset the detector
on_ptt_noreset(pressed) ==
  IF pressed
  THEN /\ _ptt_active' = TRUE
       /\ _ptt_audio' = <<>>
       /\ _current' = status_set("listening...")
       /\ UNCHANGED <<vadvars, run, call>>
  ELSE /\ _ptt_active' = FALSE
       /\ _current' = status_set("ready")
       /\ UNCHANGED <<vadvars, run, call, _ptt_audio>>

\* variant: a ZL release leaves the status as it is
on_ptt_keep_status(pressed) ==
  IF pressed
  THEN /\ _ptt_active' = TRUE
       /\ _ptt_audio' = <<>>
       /\ CallReset
       /\ _current' = status_set("listening...")
  ELSE /\ _ptt_active' = FALSE
       /\ UNCHANGED <<vadvars, run, call, _ptt_audio, _current>>

\* the ZL branch of _on_button
on_ptt(pressed) ==
  IF pressed
  THEN /\ _ptt_active' = TRUE
       /\ _ptt_audio' = <<>>
       /\ CallReset
       /\ _current' = status_set("listening...")
  ELSE /\ _ptt_active' = FALSE
       /\ _current' = status_set("ready")
       /\ UNCHANGED <<vadvars, run, call, _ptt_audio>>

\* variant: a release of a bound button is dispatched like its press
_on_button_any_edge(button, pressed) ==
  /\ IF button = "ZL"
     THEN on_ptt(pressed) /\ sink_calls' = 0 /\ UNCHANGED <<binding_key, dispatched>>
     ELSE /\ binding_key' = make_binding_key(button, _ptt_active)
          /\ dispatched' = bindings_get(binding_key')
          /\ sink_calls' = IF dispatched' = "None" THEN 0 ELSE 1
          /\ UNCHANGED <<vadvars, run, call, _ptt_active, _ptt_audio, _current>>
  /\ UNCHANGED <<transcribed, taken, recvars, regvars, auxvars>>

\* the result of dispatch_by_string is discarded, so the handler's outcome
\* leaves no trace in the App
_on_button(button, pressed) ==
  /\ IF button = "ZL"
     THEN on_ptt(pressed) /\ sink_calls' = 0 /\ UNCHANGED <<binding_key, dispatched>>
     ELSE /\ IF pressed
             THEN /\ binding_key' = make_binding_key(button, _ptt_active)
                  /\ dispatched' = bindings_get(binding_key')
                  /\ sink_calls' = IF dispatched' = "None" THEN 0 ELSE 1
             ELSE sink_calls' = 0 /\ UNCHANGED <<binding_key, dispatched>>
          /\ UNCHANGED <<vadvars, run, call, _ptt_active, _ptt_audio, _current>>
  /\ UNCHANGED <<transcribed, taken, recvars, regvars, auxvars>>

\* variant: an analog event ends push-to-talk
_on_analog_release(axis) ==
  /\ sink_calls' = 0
  /\ _ptt_active' = FALSE
  /\ UNCHANGED <<vadvars, run, call, _ptt_audio, _current, binding_key, dispatched,
                 transcribed, taken, recvars, regvars, auxvars>>

\* analog handling is reserved: the event is discarded
_on_analog(axis) ==
  /\ sink_calls' = 0
  /\ UNCHANGED <<vadvars, run, call, appvars, transcribed, taken, recvars, regvars, auxvars>>

\* what an observer of the event stream records about the event just handled
Observe(button, pressed) ==
  /\ event' = [button |-> button, pressed |-> pressed]
  /\ zl_down' = IF button = "ZL" THEN pressed ELSE zl_down
  /\ press_at' = IF button = "ZL" /\ pressed THEN taken ELSE press_at
  /\ stale' = IF button = "ZL" /\ pressed
              THEN stale \/ (~zl_down /\ heap[_vad.buffer] # <<>>)
              ELSE stale

\* an analog event just handled, as the observer records it
ObserveAnalog(axis) ==
  /\ event' = [button |-> axis, pressed |-> FALSE]
  /\ UNCHANGED <<zl_down, press_at, stale>>

_controller_loop ==
  \/ \E button \in Buttons, pressed \in BOOLEAN :
       _on_button(button, pressed) /\ Observe(button, pressed) /\ UNCHANGED <<rdvars, srcvars>>
  \/ \E axis \in Axes :
       _on_analog(axis) /\ ObserveAnalog(axis) /\ UNCHANGED <<rdvars, srcvars>>

\* ---------------- VoiceRecognizer ----------------
\* VoiceRecognizer.__init__; caller is the position of the coroutine that
\* called transcribe(): "returned" once the call is over
VoiceRecognizer ==
  [_model |-> "None", _on_transcript |-> "None", _pending_tasks |-> {},
   caller |-> "returned", running |-> {}, shutdown |-> "None", awaited |-> {}]

set_transcript_callback(rec) == [rec EXCEPT !._on_transcript = "set"]

load_model(rec) == [rec EXCEPT !._model = "loaded"]

\* variant: the call awaits the task it has created
transcribe_await(rec, id) ==
  IF rec._model = "None"
  THEN rec
  ELSE [rec EXCEPT !._pending_tasks = @ \cup {id}, !.running = @ \cup {id},
                   !.caller = "awaiting"]

\* variant: a task is created whether or not a model is loaded
transcribe_unchecked(rec, id) ==
  [rec EXCEPT !._pending_tasks = @ \cup {id}, !.running = @ \cup {id}]

\* VoiceRecognizer.transcribe: a warning and nothing else without a model,
\* else a task is created and the call returns
transcribe(rec, id) ==
  IF rec._model = "None"
  THEN rec
  ELSE [rec EXCEPT !._pending_tasks = @ \cup {id}, !.running = @ \cup {id}]

TaskOutcomes == {"text", "empty", "error"}

\* _transcribe_task: the number of invocations of the callback
callback_calls(rec, outcome) ==
  IF outcome = "text" /\ rec._on_transcript # "None" THEN 1 ELSE 0

\* the task is over: its done callback discards it from the pending set
task_done(rec, id) == [rec EXCEPT !._pending_tasks = @ \ {id}, !.running = @ \ {id}]

\* VoiceRecognizer.shutdown up to its await: the tasks pending now are
\* gathered; with none pending the call runs to its end
shutdown_begin(rec) ==
  IF rec._pending_tasks # {}
  THEN [rec EXCEPT !.shutdown = "awaiting", !.awaited = rec._pending_tasks]
  ELSE [rec EXCEPT !.shutdown = "returned"]

\* VoiceRecognizer.shutdown after the gather: the pending set is cleared
shutdown_end(rec) ==
  [rec EXCEPT !._pending_tasks = {}, !.shutdown = "returned", !.awaited = {}]

\* the speech_ended branch of the loop body of _audio_loop
submit ==
  IF result'.speech_ended /\ heap'[result'.audio_buffer] # <<>>
  THEN /\ transcribed' = concatenate(heap'[result'.audio_buffer])
       /\ _recognizer' = transcribe(_recognizer, Len(utterances) + 1)
       /\ utterances' = Append(utterances,
                               [loaded |-> _recognizer._model # "None", callbacks |-> 0,
                                at |-> taken'])
  ELSE UNCHANGED <<transcribed, recvars>>

\* variant: the chunk is processed whether or not PTT is active
audio_step_ungated(chunk) ==
  /\ taken' = taken + 1
  /\ CallProcess(chunk)
  /\ submit
  /\ UNCHANGED <<appvars, ghostvars, sink_calls, regvars, auxvars>>

\* one iteration of the loop body of _audio_loop
audio_step(chunk) ==
  /\ taken' = taken + 1
  /\ IF ~_ptt_active
     THEN /\ call' = [op |-> "drop", chunk |-> chunk, from |-> _vad.state]
          /\ UNCHANGED <<vadvars, run, transcribed, recvars>>
     ELSE /\ CallProcess(chunk)
          /\ submit
  /\ UNCHANGED <<appvars, ghostvars, sink_calls, regvars, auxvars>>

\* the loop takes its next chunk once the body, transcribe() included, is over
_audio_loop ==
  \E pat \in AppPatterns :
    /\ taken < MaxChunks
    /\ _recognizer.caller = "returned"
    /\ audio_step(Chunk(pat))
    /\ UNCHANGED <<rdvars, srcvars>>

\* App.setup: the callback is registered and the model loaded
setup ==
  /\ _recognizer._model = "None"
  /\ _recognizer' = load_model(set_transcript_callback(_recognizer))
  /\ _current' = status_set("ready")
  /\ UNCHANGED <<vadvars, run, call, _ptt_active, _ptt_audio, binding_key, dispatched,
                 transcribed, taken, ghostvars, utterances, sink_calls, regvars, auxvars,
                 rdvars, srcvars>>

\* a pending _transcribe_task runs to its end
transcribe_task ==
  \E id \in _recognizer.running, outcome \in TaskOutcomes :
    /\ utterances' = [utterances EXCEPT
                        ![id].callbacks = @ + callback_calls(_recognizer, outcome)]
    /\ _recognizer' = task_done(_recognizer, id)
    /\ UNCHANGED <<vadvars, run, call, appvars, transcribed, taken, ghostvars,
                   sink_calls, regvars, auxvars, rdvars, srcvars>>

\* ---------------- ActionRegistry ----------------
\* the members of the ActionName enum that the model uses
ActionName == {"send_enter", "send_escape", "confirm", "cancel"}

\* strings a binding may hold: the action names and one that is no action name
ActionStrings == ActionName \cup {"invalid_action"}

HandlerOutcomes == {"returns", "raises"}

\* ActionRegistry.__init__: no handlers
ActionRegistry == {}

\* ActionRegistry.register
register(reg, name) == reg \cup {name}

\* every action name has a built-in handler
BUILTIN_HANDLERS == ActionName

\* ActionRegistry.with_builtins
with_builtins == BUILTIN_HANDLERS

\* what a call gave its caller: the value returned, or an exception
Returns(value) == [returned |-> value, raised |-> FALSE]
Raises == [returned |-> "nothing", raised |-> TRUE]

\* variant: the handler is awaited outside any try block
dispatch_unguarded(reg, name, outcome) ==
  IF name \notin reg
  THEN Returns("False")
  ELSE IF outcome = "raises" THEN Raises ELSE Returns("True")

\* ActionRegistry.dispatch
dispatch(reg, name, outcome) ==
  IF name \notin reg
  THEN Returns("False")
  ELSE IF outcome = "raises" THEN Returns("False") ELSE Returns("True")

\* ActionRegistry.dispatch_by_string
dispatch_by_string(reg, action_str, outcome) ==
  IF action_str \notin ActionName
  THEN Returns("False")
  ELSE dispatch(reg, action_str, outcome)

NoCall == [action_str |-> "None", outcome |-> "None", registered |-> FALSE,
           res |-> Returns("nothing")]

\* a handler is registered for an action name
reg_register ==
  \E name \in ActionName :
    /\ _registry' = register(_registry, name)
    /\ UNCHANGED <<reg_call, vadvars, run, call, appvars, transcribed, taken, ghostvars,
                   recvars, sink_calls, rdvars, srcvars, auxvars>>

\* dispatch_by_string is called; the handler, if one runs, returns or raises
reg_dispatch ==
  \E action_str \in ActionStrings, outcome \in HandlerOutcomes :
    /\ reg_call' = [action_str |-> action_str, outcome |-> outcome,
                    registered |-> action_str \in _registry,
                    res |-> dispatch_by_string(_registry, action_str, outcome)]
    /\ UNCHANGED <<_registry, vadvars, run, call, appvars, transcribed, taken, ghostvars,
                   recvars, sink_calls, rdvars, srcvars, auxvars>>

\* ---------------- ControllerReader ----------------
ABS_HAT0X == 16
ABS_HAT0Y == 17
MAX_RANGE == 32767

BUTTON_CODE_MAP ==
  (304 :> "B" @@ 305 :> "A" @@ 306 :> "Y" @@ 307 :> "X" @@ 308 :> "L" @@ 309 :> "R" @@
   310 :> "ZL" @@ 311 :> "ZR" @@ 312 :> "minus" @@ 313 :> "plus" @@ 314 :> "L3" @@
   315 :> "R3" @@ 316 :> "home" @@ 317 :> "capture")
DPAD_X_MAP == (-1 :> "dpad_left" @@ 0 :> "None" @@ 1 :> "dpad_right")
DPAD_Y_MAP == (-1 :> "dpad_up" @@ 0 :> "None" @@ 1 :> "dpad_down")
AXIS_CODE_MAP == (0 :> "left_x" @@ 1 :> "left_y" @@ 2 :> "right_x" @@ 5 :> "right_y")

\* dict.get: None for a key that is not in the table
map_get(m, k) == IF k \in DOMAIN m THEN m[k] ELSE "None"

\* raw input events the device reports (type, code, value)
RawEvents ==
  {[type |-> "EV_KEY", code |-> 305, value |-> v] : v \in {0, 1, 2}}
  \cup {[type |-> "EV_KEY", code |-> 999, value |-> 1]}
  \cup {[type |-> "EV_ABS", code |-> c, value |-> v] : c \in {ABS_HAT0X, ABS_HAT0Y}, v \in {-1, 0, 1}}
  \cup {[type |-> "EV_ABS", code |-> 0, value |-> 40000]}
  \cup {[type |-> "EV_SYN", code |-> 0, value |-> 0]}
NoEv == [type |-> "none", code |-> 0, value |-> 0]

\* ControllerConfig; the deadzone is in hundredths
ControllerConfig ==
  [device_path |-> "/dev/input/event0", grab |-> FALSE, stick_deadzone |-> 10,
   stick_neutral_x |-> 0, stick_neutral_y |-> 0]

ButtonEvent(button, pressed) == [kind |-> "ButtonEvent", button |-> button, pressed |-> pressed]
AnalogEvent(axis, value, normalized) ==
  [kind |-> "AnalogEvent", axis |-> axis, value |-> value, normalized |-> normalized]
Sentinel == [kind |-> "None"]

Min(a, b) == IF a <= b THEN a ELSE b
Abs(a) == IF a >= 0 THEN a ELSE -a

\* the normalized value as the exact fraction num / den
_normalize(value, axis, c) ==
  LET neutral == IF axis \in {"left_y", "right_y"} THEN c.stick_neutral_y ELSE c.stick_neutral_x
      centered == value - neutral
      clamped == Max(-MAX_RANGE, Min(MAX_RANGE, centered))
      mag == Abs(clamped)
      sign == IF clamped > 0 THEN 1 ELSE -1
  IN  IF mag * 100 < c.stick_deadzone * MAX_RANGE
      THEN [num |-> 0, den |-> 1]
      ELSE [num |-> sign * (mag * 100 - c.stick_deadzone * MAX_RANGE),
            den |-> MAX_RANGE * (100 - c.stick_deadzone)]

\* no call of _normalize made yet
NoNormalize ==
  [config |-> ControllerConfig, axis |-> "None", value |-> 0, out |-> [num |-> 0, den |-> 1],
   prev_axis |-> "None", prev_value |-> 0, prev_out |-> [num |-> 0, den |-> 1]]

\* configurations the validator of ControllerConfig accepts: a deadzone from
\* 0.0 to 1.0 and any neutral offsets
NormConfigs ==
  {[ControllerConfig EXCEPT !.stick_deadzone = d, !.stick_neutral_x = nx,
                            !.stick_neutral_y = ny] :
     d \in {0, 10, 50, 100}, nx \in {0, 1000}, ny \in {0, -500}}

\* raw axis values: the neutrals, the edges of the deadzone, full deflection
\* and beyond
NormValues ==
  {-40000, -32768, -32767, -31767, -16384, -3277, -3276, -500, -1, 0, 1, 1000,
   3276, 3277, 16384, 32767, 33767, 40000}

\* _normalize is called on a raw value of an axis
normalize_call ==
  \E value \in NormValues, axis \in {"left_x", "left_y"} :
    /\ norm_call' = [norm_call EXCEPT
                       !.axis = axis, !.value = value,
                       !.out = _normalize(value, axis, norm_call.config),
                       !.prev_axis = norm_call.axis, !.prev_value = norm_call.value,
                       !.prev_out = norm_call.out]
    /\ UNCHANGED <<vadvars, run, call, appvars, transcribed, taken, ghostvars,
                   recvars, sink_calls, regvars, rdvars, srcvars, app_run>>

\* ControllerReader.__init__; the queue is asyncio.Queue(), whose maxsize is 0;
\* read_task is "None" or the state of the task it refers to
ControllerReader(c) ==
  [config |-> c, device |-> "None", queue |-> <<>>, maxsize |-> 0, read_task |-> "None",
   running |-> FALSE, dpad_x |-> "None", dpad_y |-> "None"]

\* asyncio.Queue.full: a queue whose maxsize is 0 is never full
reader_full(r) == r.maxsize > 0 /\ Len(r.queue) >= r.maxsize

\* variant: the item is put at the head of the queue
queue_put_front(r, item) == [r EXCEPT !.queue = <<item>> \o @]

\* await self._queue.put(item): the queue is unbounded, the put never suspends
queue_put(r, item) == [r EXCEPT !.queue = Append(@, item)]

_handle_key(r, ev) ==
  LET button == map_get(BUTTON_CODE_MAP, ev.code)
  IN  IF button = "None" THEN r
      ELSE queue_put(r, ButtonEvent(button, ev.value = 1))

\* variant: no release of the direction held before
handle_hat_norelease(r, slot, new_btn) ==
  LET r2 == [r EXCEPT ![slot] = new_btn]
  IN  IF new_btn # "None" THEN queue_put(r2, ButtonEvent(new_btn, TRUE)) ELSE r2

\* variant: the press of the new direction comes before the release of the old
handle_hat_swapped(r, slot, new_btn) ==
  LET r1 == IF new_btn # "None" THEN queue_put(r, ButtonEvent(new_btn, TRUE)) ELSE r
      r2 == [r1 EXCEPT ![slot] = new_btn]
  IN  IF r[slot] # "None" THEN queue_put(r2, ButtonEvent(r[slot], FALSE)) ELSE r2

\* the d-pad branch of _handle_abs for one hat
handle_hat(r, slot, new_btn) ==
  LET r1 == IF r[slot] # "None" THEN queue_put(r, ButtonEvent(r[slot], FALSE)) ELSE r
      r2 == [r1 EXCEPT ![slot] = new_btn]
  IN  IF new_btn # "None" THEN queue_put(r2, ButtonEvent(new_btn, TRUE)) ELSE r2

_handle_abs(r, ev) ==
  LET axis == map_get(AXIS_CODE_MAP, ev.code)
  IN  IF axis # "None"
      THEN queue_put(r, AnalogEvent(axis, ev.value, _normalize(ev.value, axis, r.config)))
      ELSE IF ev.code = ABS_HAT0X THEN handle_hat(r, "dpad_x", map_get(DPAD_X_MAP, ev.value))
      ELSE IF ev.code = ABS_HAT0Y THEN handle_hat(r, "dpad_y", map_get(DPAD_Y_MAP, ev.value))
      ELSE r

\* variant: the loop ends without a sentinel
loop_exit_nosentinel(r) == [r EXCEPT !.read_task = "done"]

\* the finally clause of _read_loop: the sentinel, then the task is finished
loop_exit(r) == [queue_put(r, Sentinel) EXCEPT !.read_task = "done"]

\* one iteration of the loop of _read_loop
read_event(r, ev) ==
  IF ~r.running THEN loop_exit(r)
  ELSE IF ev.type = "EV_KEY" THEN _handle_key(r, ev)
  ELSE IF ev.type = "EV_ABS" THEN _handle_abs(r, ev)
  ELSE r

\* start(): open the device, create the read task
start(r) == [r EXCEPT !.device = "open", !.running = TRUE, !.read_task = "created"]

\* the close of the device at the end of stop()
close_device(r) == [r EXCEPT !.device = "None"]

\* variant: stop() puts its sentinel and leaves the read loop running
stop_begin_noflag(r) == queue_put(r, Sentinel)

\* variant: stop() puts no sentinel of its own
stop_begin_nosentinel(r) ==
  LET r1 == [r EXCEPT !.running = FALSE]
  IN  IF r1.read_task = "created" THEN [r1 EXCEPT !.read_task = "cancel_created"]
      ELSE IF r1.read_task = "reading" THEN [r1 EXCEPT !.read_task = "cancel_reading"]
      ELSE close_device([r1 EXCEPT !.read_task = "None"])

\* stop() up to its await of the read task
stop_begin(r) ==
  LET r1 == queue_put([r EXCEPT !.running = FALSE], Sentinel)
  IN  IF r1.read_task = "created" THEN [r1 EXCEPT !.read_task = "cancel_created"]
      ELSE IF r1.read_task = "reading" THEN [r1 EXCEPT !.read_task = "cancel_reading"]
      ELSE close_device([r1 EXCEPT !.read_task = "None"])

\* the cancelled read task runs: a task that never started just ends, a
\* task inside the loop gets CancelledError and runs its finally clause
cancelled(r) ==
  IF r.read_task = "cancel_created" THEN [r EXCEPT !.read_task = "done"]
  ELSE loop_exit(r)

\* ---- the observer of the reader ----
DpadNames == {"dpad_left", "dpad_right", "dpad_up", "dpad_down"}

\* follow the emitted d-pad events: which directions are down, and whether
\* presses and releases of each direction have alternated so far
RECURSIVE Track(_, _)
Track(o, evs) ==
  IF evs = <<>> THEN o
  ELSE LET e == Head(evs)
       IN  IF e.kind = "ButtonEvent" /\ e.button \in DpadNames
           THEN Track([o EXCEPT !.down = IF e.pressed THEN @ \cup {e.button} ELSE @ \ {e.button},
                                !.alt_ok = @ /\ (e.pressed <=> e.button \notin o.down)],
                      Tail(evs))
           ELSE Track(o, Tail(evs))

Count(seq, x) == Cardinality({i \in DOMAIN seq : seq[i] = x})

\* the producer side appended to the queue: q is the queue before, q2 after
Watch(o, ev, q, q2) ==
  LET new == SubSeq(q2, Len(q) + 1, Len(q2))
      n == Len(new) - Count(new, Sentinel)
      o1 == Track(o, new)
  IN  [o1 EXCEPT !.ev = ev, !.emitted = new,
                 !.hist = @ \o SelectSeq(new, LAMBDA e : e # Sentinel),
                 !.before = IF @ = -1 /\ Count(new, Sentinel) > 0 THEN o.enq + n ELSE @,
                 !.enq = @ + n]

InitObs ==
  [raw |-> 0, ev |-> NoEv, emitted |-> <<>>, down |-> {}, alt_ok |-> TRUE, enq |-> 0,
   before |-> -1, stops |-> 0, started |-> FALSE, waiting |-> FALSE, stop_at |-> -1,
   hist |-> <<>>]

rd_start ==
  /\ ~rd_obs.started
  /\ _controller.read_task = "None" /\ rd_stop = "idle"
  /\ _controller' = start(_controller)
  /\ rd_obs' = [rd_obs EXCEPT !.started = TRUE]
  /\ UNCHANGED <<rd_stop, rd_consumer, oldvars, srcvars>>

rd_first_step ==
  /\ _controller.read_task = "created"
  /\ _controller' = [_controller EXCEPT !.read_task = "reading"]
  /\ UNCHANGED <<rd_stop, rd_consumer, rd_obs, oldvars, srcvars>>

rd_read ==
  \E ev \in RawEvents :
    /\ _controller.read_task = "reading"
    /\ rd_obs.raw < MaxRaw
    /\ _controller' = read_event(_controller, ev)
    /\ rd_obs' = [Watch(rd_obs, ev, _controller.queue, _controller'.queue) EXCEPT !.raw = @ + 1]
    /\ UNCHANGED <<rd_stop, rd_consumer, oldvars, srcvars>>

\* the device read raises OSError, or the device stream ends
rd_fail ==
  /\ _controller.read_task = "reading"
  /\ _controller' = loop_exit(_controller)
  /\ rd_obs' = Watch(rd_obs, NoEv, _controller.queue, _controller'.queue)
  /\ UNCHANGED <<rd_stop, rd_consumer, oldvars, srcvars>>

rd_stop_call ==
  /\ rd_stop = "idle"
  /\ rd_obs.stops < MaxStops
  /\ _controller' = stop_begin(_controller)
  /\ rd_stop' = IF _controller'.read_task \in {"cancel_created", "cancel_reading"}
                THEN "awaiting" ELSE "idle"
  /\ rd_obs' = [Watch(rd_obs, NoEv, _controller.queue, _controller'.queue)
                  EXCEPT !.stops = @ + 1,
                         !.stop_at = IF rd_obs.stops > 0 THEN @
                                     ELSE IF rd_obs.started THEN rd_obs.enq ELSE -2,
                         !.waiting = @ \/ (rd_obs.started /\ rd_consumer.pc = "iterating"
                                           /\ _controller.queue = <<>>)]
  /\ UNCHANGED <<rd_consumer, oldvars, srcvars>>

rd_cancelled ==
  /\ _controller.read_task \in {"cancel_created", "cancel_reading"}
  /\ _controller' = cancelled(_controller)
  /\ rd_obs' = Watch(rd_obs, NoEv, _controller.queue, _controller'.queue)
  /\ UNCHANGED <<rd_stop, rd_consumer, oldvars, srcvars>>

\* stop() after its await of the read task
rd_stop_finish ==
  /\ rd_stop = "awaiting"
  /\ _controller.read_task = "done"
  /\ _controller' = close_device([_controller EXCEPT !.read_task = "None"])
  /\ rd_stop' = "idle"
  /\ UNCHANGED <<rd_consumer, rd_obs, oldvars, srcvars>>

\* a consumer calls events()
rd_events ==
  /\ rd_consumer.pc = "idle"
  /\ rd_consumer' = [rd_consumer EXCEPT !.pc = "iterating"]
  /\ UNCHANGED <<_controller, rd_stop, rd_obs, oldvars, srcvars>>

\* event = await self._queue.get(); if event is None: break; yield event
events_get(c, item) ==
  IF item = Sentinel THEN [c EXCEPT !.pc = "done"]
  ELSE [c EXCEPT !.yielded = @ + 1, !.last = item]

rd_get ==
  /\ rd_consumer.pc = "iterating"
  /\ _controller.queue # <<>>
  /\ rd_consumer' = events_get(rd_consumer, Head(_controller.queue))
  /\ _controller' = [_controller EXCEPT !.queue = Tail(@)]
  /\ UNCHANGED <<rd_stop, rd_obs, oldvars, srcvars>>

InitReaderVars ==
  /\ _controller = ControllerReader(ControllerConfig)
  /\ rd_stop = "idle"
  /\ rd_consumer = [pc |-> "idle", yielded |-> 0, last |-> Sentinel]
  /\ rd_obs = InitObs

\* ---------------- AudioSource: LocalSource and BridgeSource ----------------
QUEUE_MAXSIZE == 50

\* np.zeros(0): the chunk of size 0 that ends chunks()
SrcSentinel == [size |-> 0, id |-> 0]
\* the n-th chunk the hardware or the bridge produced
AudioChunk(n) == [size |-> CHUNK_SAMPLES, id |-> n]

\* __init__ of the two variants; task is "None" or the state of the receive
\* task, pending holds the calls scheduled by call_soon_threadsafe
LocalSource ==
  [kind |-> "local", queue |-> <<>>, stream |-> "None", task |-> "None", pending |-> <<>>]
BridgeSource ==
  [kind |-> "bridge", queue |-> <<>>, stream |-> "None", task |-> "None", pending |-> <<>>]

\* asyncio.Queue.full()
full(q) == Len(q) >= QUEUE_MAXSIZE

\* Queue.put_nowait: raises QueueFull on a full queue
put_nowait(s, item) ==
  IF full(s.queue) THEN [src |-> s, raised |-> TRUE]
  ELSE [src |-> [s EXCEPT !.queue = Append(@, item)], raised |-> FALSE]

\* the binary frames the bridge sends, in bytes: a 30 ms frame, and a
\* shorter one among the first frames of a connection
FullFrame == 2 * CHUNK_SAMPLES
ShortFrame == CHUNK_SAMPLES
\* a binary message may also be empty
EmptyFrame == 0
Frames(n) ==
  IF n < MaxOddFrames THEN {FullFrame, ShortFrame, EmptyFrame} ELSE {FullFrame}

\* variant: the frame is brought to the chunk size
frombuffer_fixed(n, nbytes) == [size |-> CHUNK_SAMPLES, id |-> n]

\* np.frombuffer(message, dtype=np.int16): one sample for two bytes
frombuffer(n, nbytes) == [size |-> nbytes \div 2, id |-> n]

\* LocalSource.start / BridgeSource.start; avail says whether the capture
\* resource can be acquired. The local variant opens the stream and fails
\* with sounddevice's error; the bridge variant only creates the task.
source_start(s, avail) ==
  IF s.kind = "local"
  THEN IF avail THEN [src |-> [s EXCEPT !.stream = "open"], result |-> "returned"]
       ELSE [src |-> s, result |-> "PortAudioError"]
  ELSE [src |-> [s EXCEPT !.task = "created"], result |-> "returned"]

\* the hardware callback: call_soon_threadsafe only schedules the put, so
\* the suppress around it has nothing to catch
_callback(s, chunk) == [s EXCEPT !.pending = Append(@, chunk)]

\* the event loop runs a scheduled put_nowait; an exception it raises goes
\* to the loop's exception handler
run_scheduled(s) ==
  LET r == put_nowait([s EXCEPT !.pending = Tail(@)], Head(s.pending))
  IN  [src |-> r.src, loop_error |-> r.raised]

\* _receive_loop on a bytes message: put_nowait under suppress(QueueFull)
receive(s, chunk) == put_nowait(s, chunk).src

\* variant: the loop ends without a sentinel
task_put_nosentinel(s, blocked) == [s EXCEPT !.task = "done"]

\* await self._queue.put(sentinel) by the task, first attempt: the put
\* waits while the queue is full; blocked names the state of a waiting task
task_put(s, blocked) ==
  IF full(s.queue) THEN [s EXCEPT !.task = blocked]
  ELSE [s EXCEPT !.queue = Append(@, SrcSentinel), !.task = "done"]

\* websockets.connect in the task's first step: connected, or an exception
\* that is logged and leads to the finally clause
connect(s, avail) ==
  IF avail THEN [s EXCEPT !.task = "running"] ELSE task_put(s, "putting")

\* the cancelled receive task runs
task_cancelled(s) ==
  IF s.task = "cancel_running" THEN task_put(s, "putting_c")
  ELSE [s EXCEPT !.task = "done"]

\* stop() up to its put of the sentinel: close the stream, cancel the task
source_release(s) ==
  IF s.kind = "local" THEN [s EXCEPT !.stream = "None"]
  ELSE IF s.task \in {"created", "running", "putting"}
       THEN [s EXCEPT !.task = "cancel_" \o @]
       ELSE [s EXCEPT !.task = "None"]

\* variant: stop() returns without its put of the sentinel
stop_put_skip(s) == s

\* the put of the sentinel by stop(), on a queue that is not full
stop_put(s) == [s EXCEPT !.queue = Append(@, SrcSentinel)]

Sentinels(q) == Cardinality({i \in DOMAIN q : q[i] = SrcSentinel})

InitSrcObs ==
  [produced |-> 0, loop_error |-> FALSE, sentinels |-> 0, stops |-> 0, returned |-> 0,
   started |-> FALSE, iter_at_stop |-> FALSE, read_after |-> 0,
   avail |-> TRUE, start_result |-> "none", connects |-> 0, lost |-> FALSE,
   short |-> {}, dropped |-> {}]

\* the observer counts the sentinels put by a step
SrcWatch(o, q, q2) == [o EXCEPT !.sentinels = @ + Sentinels(q2) - Sentinels(q)]

\* the source is started at most once, and not after a stop()
src_start ==
  /\ src_obs.start_result = "none" /\ src_obs.stops = 0
  /\ LET r == source_start(_source, src_obs.avail)
     IN  /\ _source' = r.src
         /\ src_obs' = [src_obs EXCEPT !.started = (r.result = "returned"),
                                       !.start_result = r.result]
  /\ UNCHANGED <<src_stop, src_consumer, oldvars, rdvars>>

\* the hardware delivers a chunk to the callback (on the audio thread)
src_callback ==
  /\ _source.kind = "local" /\ _source.stream = "open"
  /\ src_obs.produced < MaxAudio /\ Len(_source.pending) < MaxPending
  /\ _source' = _callback(_source, AudioChunk(src_obs.produced + 1))
  /\ src_obs' = [src_obs EXCEPT !.produced = @ + 1]
  /\ UNCHANGED <<src_stop, src_consumer, oldvars, rdvars>>

src_run_scheduled ==
  /\ _source.pending # <<>>
  /\ LET r == run_scheduled(_source)
     IN  /\ _source' = r.src
         /\ src_obs' = [src_obs EXCEPT !.loop_error = @ \/ r.loop_error,
                          !.dropped = IF r.src.queue = _source.queue
                                      THEN @ \cup {Head(_source.pending).id} ELSE @]
  /\ UNCHANGED <<src_stop, src_consumer, oldvars, rdvars>>

\* the receive task's first step: it connects and waits for a message
src_task_first ==
  /\ _source.task = "created"
  /\ _source' = connect(_source, src_obs.avail)
  /\ src_obs' = [SrcWatch(src_obs, _source.queue, _source'.queue)
                   EXCEPT !.connects = @ + 1, !.lost = ~src_obs.avail]
  /\ UNCHANGED <<src_stop, src_consumer, oldvars, rdvars>>

\* a binary message arrives
src_message ==
  \E nbytes \in Frames(src_obs.produced) :
    /\ _source.task = "running"
    /\ src_obs.produced < MaxAudio
    /\ _source' = receive(_source, frombuffer(src_obs.produced + 1, nbytes))
    /\ src_obs' = [src_obs EXCEPT !.produced = @ + 1,
                     !.short = IF nbytes = ShortFrame THEN @ \cup {src_obs.produced + 1} ELSE @,
                     !.dropped = IF _source'.queue = _source.queue
                                 THEN @ \cup {src_obs.produced + 1} ELSE @]
    /\ UNCHANGED <<src_stop, src_consumer, oldvars, rdvars>>

\* the connection closes or fails: the loop ends by itself
src_loop_end ==
  /\ _source.task = "running"
  /\ _source' = task_put(_source, "putting")
  /\ src_obs' = [SrcWatch(src_obs, _source.queue, _source'.queue) EXCEPT !.lost = TRUE]
  /\ UNCHANGED <<src_stop, src_consumer, oldvars, rdvars>>

\* a task waiting in the put of its finally clause gets a free slot
src_task_put ==
  /\ _source.task \in {"putting", "putting_c"}
  /\ ~full(_source.queue)
  /\ _source' = task_put(_source, _source.task)
  /\ src_obs' = SrcWatch(src_obs, _source.queue, _source'.queue)
  /\ UNCHANGED <<src_stop, src_consumer, oldvars, rdvars>>

src_task_cancelled ==
  /\ _source.task \in {"cancel_created", "cancel_running", "cancel_putting"}
  /\ _source' = task_cancelled(_source)
  /\ src_obs' = SrcWatch(src_obs, _source.queue, _source'.queue)
  /\ UNCHANGED <<src_stop, src_consumer, oldvars, rdvars>>

\* stop() from its put of the sentinel on: s is the source after the release
StopPut(s) ==
  /\ _source' = IF full(s.queue) THEN s ELSE stop_put(s)
  /\ src_stop' = IF full(s.queue) THEN "putting" ELSE "idle"

Returned(o) == IF src_stop' = "idle" THEN [o EXCEPT !.returned = @ + 1] ELSE o

src_stop_call ==
  /\ src_stop = "idle"
  /\ src_obs.stops < MaxStops
  /\ LET s == source_release(_source)
         o == [src_obs EXCEPT !.stops = @ + 1,
                 !.iter_at_stop = @ \/ (src_obs.started /\ src_consumer.pc = "iterating")]
     IN  IF s.task \in {"cancel_created", "cancel_running", "cancel_putting"}
         THEN /\ _source' = s
              /\ src_stop' = "awaiting"
              /\ src_obs' = o
         ELSE /\ StopPut(s)
              /\ src_obs' = Returned(SrcWatch(o, _source.queue, _source'.queue))
  /\ UNCHANGED <<src_consumer, oldvars, rdvars>>

\* stop() after its await of the cancelled task
src_stop_resume ==
  /\ src_stop = "awaiting"
  /\ _source.task = "done"
  /\ StopPut([_source EXCEPT !.task = "None"])
  /\ src_obs' = Returned(SrcWatch(src_obs, _source.queue, _source'.queue))
  /\ UNCHANGED <<src_consumer, oldvars, rdvars>>

\* a stop() waiting in its put gets a free slot
src_stop_put ==
  /\ src_stop = "putting"
  /\ ~full(_source.queue)
  /\ StopPut(_source)
  /\ src_obs' = Returned(SrcWatch(src_obs, _source.queue, _source'.queue))
  /\ UNCHANGED <<src_consumer, oldvars, rdvars>>

\* a consumer calls chunks()
src_chunks ==
  /\ src_consumer.pc = "idle"
  /\ src_consumer' = [src_consumer EXCEPT !.pc = "iterating"]
  /\ UNCHANGED <<_source, src_stop, src_obs, oldvars, rdvars>>

\* chunk = await self._queue.get(); if chunk.size == 0: break; yield chunk
chunks_get(c, chunk) ==
  IF chunk.size = 0 THEN [c EXCEPT !.pc = "done"]
  ELSE [c EXCEPT !.last = chunk.id]

src_get ==
  /\ src_consumer.pc = "iterating"
  /\ _source.queue # <<>>
  /\ src_consumer' = chunks_get(src_consumer, Head(_source.queue))
  /\ _source' = [_source EXCEPT !.queue = Tail(@)]
  /\ src_obs' = [src_obs EXCEPT
                   !.read_after =
                     IF src_obs.iter_at_stop /\ src_obs.returned >= 1 /\ @ < 2 THEN @ + 1 ELSE @,
                   \* frames older than the item read are forgotten
                   !.short = {i \in @ : i >= Head(_source.queue).id}]
  /\ UNCHANGED <<src_stop, oldvars, rdvars>>

InitSourceVars ==
  /\ _source = LocalSource
  /\ src_stop = "idle"
  /\ src_consumer = [pc |-> "idle", last |-> 0]
  /\ src_obs = InitSrcObs

\* the App and detector variables other than _vad
InitOld ==
  /\ heap = [i \in ListIds |-> <<>>]
  /\ result = [speech_started |-> FALSE, speech_ended |-> FALSE, audio_buffer |-> None]
  /\ held = None
  /\ held_copy = <<>>
  /\ _ptt_active = FALSE
  /\ _ptt_audio = <<>>
  /\ _current = ""
  /\ binding_key = ""
  /\ dispatched = "None"
  /\ transcribed = NoAudio
  /\ taken = 0
  /\ call = [op |-> "none", chunk |-> NoChunk, from |-> "SILENCE"]
  /\ run = <<>>
  /\ press_at = 0
  /\ zl_down = FALSE
  /\ stale = FALSE
  /\ event = [button |-> "none", pressed |-> FALSE]
  /\ started_at = 0
  /\ _recognizer = VoiceRecognizer
  /\ utterances = <<>>
  /\ sink_calls = 0
  /\ reg_call = NoCall

\* ---------------- App.run ----------------
\* the bridge settings run() chooses the audio source by; a validated
\* BridgeConfig has port >= 1, the port 0 is the one tests/test_app.py sets to
\* reach LocalSource
BridgeConfigs == [host : {"", "192.168.0.2"}, port : {0, 8765}]

\* App before run() is called: entered is the stack of context managers the
\* async with statement has entered, loops the two coroutines given to gather,
\* exc the exception in flight; started and stopped list the components whose
\* start() returned and whose stop() was called, in the order of the calls
NoRun ==
  [bridge |-> [host |-> "", port |-> 0], pc |-> "None", source |-> "None",
   entered |-> <<>>, stopping |-> "None",
   loops |-> [controller |-> "None", audio |-> "None"],
   exc |-> "None", started |-> <<>>, stopped |-> <<>>]

\* run() up to the async with statement: the choice of the audio source
run_begin(r) ==
  [r EXCEPT !.pc = "enter_source",
            !.source = IF r.bridge.host # "" \/ r.bridge.port # 0 THEN "bridge" ELSE "local"]

\* __aenter__ of a component: start() returns, or raises and the statement unwinds
aenter(r, comp, outcome) ==
  IF outcome = "returns"
  THEN [r EXCEPT !.entered = Append(r.entered, comp),
                 !.pc = IF comp = "source" THEN "enter_controller" ELSE "body",
                 !.loops = IF comp = "source" THEN r.loops
                           ELSE [controller |-> "running", audio |-> "running"]]
  ELSE [r EXCEPT !.exc = "error", !.pc = "unwind"]

\* the context manager the async with statement exits first
aexit_next_fifo(r) == Head(r.entered)
aexit_next(r) == r.entered[Len(r.entered)]

\* the async with statement calls __aexit__, and so stop(), of a context it entered
aexit_call(r) ==
  LET comp == aexit_next(r)
  IN [r EXCEPT !.stopping = comp, !.pc = "in_stop",
               !.entered = SelectSeq(r.entered, LAMBDA c : c # comp)]

\* stop() returns, raises, or is cancelled at one of its awaits: an exception
\* of __aexit__ replaces the one in flight and the statement goes on unwinding
aexit_done(r, outcome) ==
  [r EXCEPT !.stopping = "None", !.pc = "unwind",
            !.exc = IF outcome = "returns" THEN r.exc
                    ELSE IF outcome = "raises" THEN "error" ELSE "cancelled"]

\* gather: one of the two loops ends or raises; the first exception is raised in
\* run() at once, and gather returns when both loops have ended
gather_step(r, loop, outcome) ==
  LET loops == [r.loops EXCEPT ![loop] = outcome]
  IN [r EXCEPT !.loops = loops,
               !.exc = IF outcome = "raised" THEN "error" ELSE r.exc,
               !.pc = IF \/ outcome = "raised"
                          \/ (loops.controller = "ended" /\ loops.audio = "ended")
                       THEN "unwind" ELSE r.pc]

\* run() is cancelled while it waits in gather
gather_cancelled(r) == [r EXCEPT !.exc = "cancelled", !.pc = "unwind"]

\* the outcomes start() of a component can have: BridgeSource.start only
\* creates a task, the other two open a device
StartOutcomes(r, comp) ==
  IF comp = "source" /\ r.source = "bridge" THEN {"returns"} ELSE {"returns", "raises"}

run_call ==
  /\ app_run.pc = "None"
  /\ app_run' = run_begin(app_run)
  /\ UNCHANGED runrest

run_enter ==
  /\ app_run.pc \in {"enter_source", "enter_controller"}
  /\ LET comp == IF app_run.pc = "enter_source" THEN "source" ELSE "controller"
     IN \E outcome \in StartOutcomes(app_run, comp) :
          app_run' = [aenter(app_run, comp, outcome) EXCEPT
                        !.started = IF outcome = "returns" THEN Append(@, comp) ELSE @]
  /\ UNCHANGED runrest

run_gather ==
  /\ app_run.pc = "body"
  /\ \/ \E loop \in {"controller", "audio"}, outcome \in {"ended", "raised"} :
          /\ app_run.loops[loop] = "running"
          /\ app_run' = gather_step(app_run, loop, outcome)
     \/ app_run' = gather_cancelled(app_run)
  /\ UNCHANGED runrest

run_exit_call ==
  /\ app_run.pc = "unwind"
  /\ app_run.entered # <<>>
  /\ LET r == aexit_call(app_run)
     IN app_run' = [r EXCEPT !.stopped = Append(@, r.stopping)]
  /\ UNCHANGED runrest

run_exit_done ==
  /\ app_run.pc = "in_stop"
  /\ \E outcome \in {"returns", "raises", "cancelled"} :
       app_run' = aexit_done(app_run, outcome)
  /\ UNCHANGED runrest

\* run() returns, or the exception in flight leaves it
run_return ==
  /\ app_run.pc = "unwind"
  /\ app_run.entered = <<>>
  /\ app_run' = [app_run EXCEPT !.pc = "exited"]
  /\ UNCHANGED runrest

InitCommon ==
  /\ InitOld
  /\ _registry = with_builtins
  /\ norm_call = NoNormalize
  /\ app_run = NoRun
  /\ InitReaderVars
  /\ InitSourceVars

Init ==
  /\ \E th \in AppThresholds, sil \in AppSilenceMs :
        _vad = VoiceActivityDetector(VADConfig(th, sil, DefaultMinSpeechMs), 0)
  /\ InitCommon

Next == _controller_loop \/ _audio_loop

Spec == Init /\ [][Next]_vars

\* ---------------- the App with its recognizer ----------------
\* main() awaits setup() before run(): the loops start with the model loaded
NextApp ==
  \/ setup
  \/ /\ _recognizer._model # "None"
     /\ (_controller_loop \/ _audio_loop \/ transcribe_task)

SpecApp == Init /\ [][NextApp]_vars

\* ---------------- the recognizer on its own ----------------
rec_set_transcript_callback ==
  /\ _recognizer' = set_transcript_callback(_recognizer)
  /\ UNCHANGED <<utterances, vadvars, run, call, appvars, transcribed, taken, ghostvars,
                 sink_calls, regvars, auxvars, rdvars, srcvars>>

rec_load_model ==
  /\ _recognizer' = load_model(_recognizer)
  /\ UNCHANGED <<utterances, vadvars, run, call, appvars, transcribed, taken, ghostvars,
                 sink_calls, regvars, auxvars, rdvars, srcvars>>

\* transcribe() is called with one more utterance
rec_transcribe ==
  /\ Len(utterances) < MaxUtterances
  /\ _recognizer.caller = "returned"
  /\ _recognizer' = transcribe(_recognizer, Len(utterances) + 1)
  /\ utterances' = Append(utterances,
                          [loaded |-> _recognizer._model # "None", callbacks |-> 0,
                           at |-> taken])
  /\ UNCHANGED <<vadvars, run, call, appvars, transcribed, taken, ghostvars,
                 sink_calls, regvars, auxvars, rdvars, srcvars>>

\* shutdown() is called
rec_shutdown ==
  /\ _recognizer.shutdown = "None"
  /\ _recognizer' = shutdown_begin(_recognizer)
  /\ UNCHANGED <<utterances, vadvars, run, call, appvars, transcribed, taken, ghostvars,
                 sink_calls, regvars, auxvars, rdvars, srcvars>>

\* every gathered task is over: shutdown() resumes and returns
rec_shutdown_resume ==
  /\ _recognizer.shutdown = "awaiting"
  /\ _recognizer.awaited \cap _recognizer.running = {}
  /\ _recognizer' = shutdown_end(_recognizer)
  /\ UNCHANGED <<utterances, vadvars, run, call, appvars, transcribed, taken, ghostvars,
                 sink_calls, regvars, auxvars, rdvars, srcvars>>

NextRecognizer ==
  \/ rec_set_transcript_callback \/ rec_load_model \/ rec_transcribe \/ transcribe_task
  \/ rec_shutdown \/ rec_shutdown_resume

SpecRecognizer == Init /\ [][NextRecognizer]_vars

\* ---------------- App.run on its own ----------------
InitRun ==
  /\ _vad = VoiceActivityDetector(VADConfig(5, 100, DefaultMinSpeechMs), 0)
  /\ InitOld
  /\ _registry = with_builtins
  /\ norm_call = NoNormalize
  /\ \E b \in BridgeConfigs : app_run = [NoRun EXCEPT !.bridge = b]
  /\ InitReaderVars
  /\ InitSourceVars

NextRun ==
  run_call \/ run_enter \/ run_gather \/ run_exit_call \/ run_exit_done \/ run_return

SpecRun == InitRun /\ [][NextRun]_vars

\* ---------------- _normalize on its own ----------------
InitNormalize ==
  /\ _vad = VoiceActivityDetector(VADConfig(5, 100, DefaultMinSpeechMs), 0)
  /\ InitOld
  /\ _registry = with_builtins
  /\ \E c \in NormConfigs : norm_call = [NoNormalize EXCEPT !.config = c]
  /\ app_run = NoRun
  /\ InitReaderVars
  /\ InitSourceVars

NextNormalize == normalize_call

SpecNormalize == InitNormalize /\ [][NextNormalize]_vars

\* ---------------- the registry on its own ----------------
InitRegistry ==
  /\ _vad = VoiceActivityDetector(VADConfig(5, 100, DefaultMinSpeechMs), 0)
  /\ InitOld
  /\ _registry = ActionRegistry
  /\ norm_call = NoNormalize
  /\ app_run = NoRun
  /\ InitReaderVars
  /\ InitSourceVars

NextRegistry == reg_register \/ reg_dispatch

SpecRegistry == InitRegistry /\ [][NextRegistry]_vars

\* ---------------- the detector on its own ----------------
InitVAD ==
  /\ \E th \in VadThresholds, sil \in VadSilenceMs, ms \in VadMinSpeechMs :
        _vad = VoiceActivityDetector(VADConfig(th, sil, ms), 0)
  /\ InitCommon

vad_process ==
  \E pat \in Patterns :
    /\ taken < MaxChunks
    /\ taken' = taken + 1
    /\ CallProcess(Chunk(pat))
    /\ UNCHANGED <<appvars, ghostvars, transcribed, rdvars, srcvars,
                   recvars, sink_calls, regvars, auxvars>>

vad_reset ==
  /\ CallReset
  /\ UNCHANGED <<appvars, ghostvars, transcribed, taken, rdvars, srcvars,
                 recvars, sink_calls, regvars, auxvars>>

NextVAD == vad_process \/ vad_reset

SpecVAD == InitVAD /\ [][NextVAD]_vars

\* ---------------- the controller reader and one consumer ----------------
InitReader == Init

NextReader ==
  \/ rd_start \/ rd_first_step \/ rd_read \/ rd_fail
  \/ rd_stop_call \/ rd_cancelled \/ rd_stop_finish
  \/ rd_events \/ rd_get

SpecReader == InitReader /\ [][NextReader]_vars

\* the event loop runs every task that is ready: the cancelled read task,
\* the stop() that waits for it, and a consumer whose queue is not empty
FairReader == WF_vars(rd_cancelled) /\ WF_vars(rd_stop_finish) /\ WF_vars(rd_get)

SpecReaderFair == SpecReader /\ FairReader

\* ---------------- an audio source and one consumer ----------------
\* a source of either variant after construction, its capture resource
\* available or not
InitSourceAny ==
  /\ _source \in {LocalSource, BridgeSource}
  /\ src_stop = "idle"
  /\ src_consumer = [pc |-> "idle", last |-> 0]
  /\ \E a \in BOOLEAN : src_obs = [InitSrcObs EXCEPT !.avail = a]

InitSource ==
  /\ \E th \in AppThresholds, sil \in AppSilenceMs :
       _vad = VoiceActivityDetector(VADConfig(th, sil, DefaultMinSpeechMs), 0)
  /\ InitOld
  /\ _registry = with_builtins
  /\ norm_call = NoNormalize
  /\ app_run = NoRun
  /\ InitReaderVars
  /\ InitSourceAny

NextSource ==
  \/ src_start \/ src_callback \/ src_run_scheduled
  \/ src_task_first \/ src_message \/ src_loop_end \/ src_task_put \/ src_task_cancelled
  \/ src_stop_call \/ src_stop_resume \/ src_stop_put
  \/ src_chunks \/ src_get

SpecSource == InitSource /\ [][NextSource]_vars

\* the event loop runs every callback and task that is ready
FairSource ==
  /\ WF_vars(src_run_scheduled) /\ WF_vars(src_task_put) /\ WF_vars(src_task_cancelled)
  /\ WF_vars(src_stop_resume) /\ WF_vars(src_stop_put) /\ WF_vars(src_get)

SpecSourceFair == SpecSource /\ FairSource

\* ---------------- one source at a time: the reader or an audio source ----------------
\* a run exercises the controller reader or the audio source; the other
\* stays as constructed
NextOrder ==
  \/ InitSourceVars /\ NextReader
  \/ InitReaderVars /\ NextSource

SpecOrder == InitSource /\ [][NextOrder]_vars

TypeOK ==
  /\ _vad.state \in VADState
  /\ _vad.buffer \in ListIds
  /\ taken \in 0 .. MaxChunks

\* ---------------- properties ----------------
\* the chunk's RMS is at least the threshold of the detector
Loud(c) == SumSq(c.pat) >= _vad.cfg.threshold * _vad.cfg.threshold * Len(c.pat)

RECURSIVE LeadLoud(_)
LeadLoud(s) == IF s = <<>> \/ ~Loud(Head(s)) THEN 0 ELSE 1 + LeadLoud(Tail(s))

RECURSIVE TrailQuiet(_)
TrailQuiet(s) ==
  IF s = <<>> \/ Loud(s[Len(s)]) THEN 0 ELSE 1 + TrailQuiet(SubSeq(s, 1, Len(s) - 1))

CountLoud(s) == Cardinality({i \in DOMAIN s : Loud(s[i])})

\* n chunks of speech last at least min_speech_ms
MeetsMinSpeech(n) ==
  n * CHUNK_SAMPLES * 1000 >= _vad.cfg.min_speech_ms * _vad.cfg.sample_rate

Idle(d, h) ==
  /\ d.state = "SILENCE"
  /\ h[d.buffer] = <<>>
  /\ d.silence_samples = 0
  /\ d.speech_samples = 0

\* C1: in the audio loop a chunk is passed to process() exactly when PTT is
\* active as the chunk is taken; a chunk taken while PTT is inactive is
\* dropped and leaves the detector, its buffer and its counters unchanged.
C1_ChunksGatedByPTT ==
  [][taken' # taken =>
       IF _ptt_active
       THEN call'.op = "process" /\ call'.chunk.id = taken'
       ELSE call'.op = "drop" /\ UNCHANGED <<_vad, heap, result>>]_vars

C1_Witness == call.op = "drop" /\ ~_ptt_active /\ _vad.state = "SPEECH"

\* C2: every utterance handed to the transcriber consists only of chunks
\* taken after the most recent ZL press; no chunk of an earlier hold is in it.
C2_UtteranceFromCurrentHold ==
  [][transcribed' # transcribed =>
       /\ transcribed'.samples # <<>>
       /\ \A i \in DOMAIN transcribed'.samples : transcribed'.samples[i][1] > press_at]_vars

C2_Witness ==
  /\ call.op = "process" /\ result.speech_ended
  /\ transcribed = concatenate(heap[result.audio_buffer])
  /\ stale

\* C3: whenever PTT is inactive the detector is in SILENCE with an empty
\* buffer and zero counters (a ZL release resets the detector).
C3_InactiveImpliesIdle == ~_ptt_active => Idle(_vad, heap)

\* C4: a press of a non-PTT button looks up "ZL_<button>" if and only if the
\* last ZL event handled before it was a press, and the bare name otherwise.
C4_BindingKey ==
  (event.button \in Buttons \ {"ZL"} /\ event.pressed) =>
     /\ zl_down => binding_key = "ZL_" \o event.button
     /\ ~zl_down => binding_key = event.button
     /\ dispatched = bindings_get(binding_key)

C4_Witness ==
  /\ event = [button |-> "A", pressed |-> TRUE]
  /\ zl_down
  /\ binding_key = "ZL_A"
  /\ dispatched = "send_escape"

\* C5: from SILENCE, n >= 1 speech chunks that meet min_speech_ms followed by
\* k silence chunks: speech_ended is returned exactly on the silence chunk
\* that reaches silence_threshold_chunks, with a buffer of n + threshold
\* chunks; with silence_duration_ms = 60, speech, silence, silence ends on
\* the third call with 3 chunks and not on the second.
C5_SpeechThenSilence ==
  LET n == LeadLoud(run)
      k == TrailQuiet(run)
      T == _vad.silence_threshold_chunks
  IN  (call.op = "process" /\ n >= 1 /\ k >= 1 /\ n + k = Len(run) /\ MeetsMinSpeech(n))
      => /\ k <= T
         /\ result.speech_ended <=> (k = T)
         /\ result.speech_ended => Len(heap[result.audio_buffer]) = n + T
         /\ (_vad.cfg.silence_duration_ms = 60 /\ n = 1 /\ k = 1) => ~result.speech_ended
         /\ (_vad.cfg.silence_duration_ms = 60 /\ n = 1 /\ k = 2)
               => result.speech_ended /\ Len(heap[result.audio_buffer]) = 3

C5_Witness ==
  /\ call.op = "process" /\ result.speech_ended
  /\ _vad.cfg.silence_duration_ms = 60
  /\ LeadLoud(run) = 1 /\ TrailQuiet(run) = 2 /\ Len(run) = 3
  /\ Len(heap[result.audio_buffer]) = 3

\* C6: when the trailing silence reaches the threshold and the speech chunks
\* of the utterance amount to fewer samples than min_speech_ms, process()
\* returns speech_ended = false with an empty buffer and the detector is idle.
C6_ShortSpeechDiscarded ==
  (/\ call.op = "process" /\ call.from = "SPEECH"
   /\ TrailQuiet(run) = _vad.silence_threshold_chunks
   /\ ~MeetsMinSpeech(CountLoud(run)))
  => /\ ~result.speech_ended
     /\ heap[result.audio_buffer] = <<>>
     /\ Idle(_vad, heap)

C6_Witness ==
  /\ call.op = "process" /\ call.from = "SPEECH"
  /\ TrailQuiet(run) = _vad.silence_threshold_chunks
  /\ ~MeetsMinSpeech(CountLoud(run))
  /\ CountLoud(run) >= 2
  /\ _vad.state = "SILENCE"

\* C7: process() called in SILENCE: a chunk with RMS >= threshold moves the
\* detector to SPEECH with a new buffer holding exactly that chunk and
\* returns speech_started; a chunk below the threshold changes nothing.
C7_SilenceStep ==
  [][(call'.op = "process" /\ taken' # taken /\ _vad.state = "SILENCE") =>
       IF Loud(call'.chunk)
       THEN /\ _vad'.state = "SPEECH"
            /\ heap'[_vad'.buffer] = <<call'.chunk>>
            /\ _vad'.buffer \notin {_vad.buffer, held}
            /\ result'.speech_started
       ELSE /\ _vad' = _vad
            /\ heap'[_vad'.buffer] = heap[_vad.buffer]
            /\ ~result'.speech_started]_vars

C7_Witness ==
  /\ call.op = "process" /\ call.from = "SILENCE"
  /\ result.speech_started
  /\ held # None
  /\ heap[_vad.buffer] = <<call.chunk>>

\* C8: an emitted utterance is exactly the chunks passed to process() from
\* the chunk that returned speech_started to the chunk that ended it, in
\* order; the detector keeps none of it, and the returned list is not
\* changed by later calls.
C8_UtteranceExact ==
  /\ (call.op = "process" /\ result.speech_ended) =>
        /\ heap[result.audio_buffer] = run
        /\ \A i \in DOMAIN run : run[i].id = started_at + i - 1
        /\ heap[_vad.buffer] = <<>>
        /\ result.audio_buffer # _vad.buffer
  /\ held # None => heap[held] = held_copy /\ held_copy # <<>>

C8_Witness ==
  /\ held # None /\ Len(held_copy) >= 3
  /\ call.op = "process" /\ _vad.state = "SPEECH"
  /\ heap[_vad.buffer] # <<>>

\* C9: no result has speech_started and speech_ended both true, and its
\* audio_buffer is non-empty exactly when speech_ended is true.
C9_ResultShape ==
  result.audio_buffer # None =>
     /\ ~(result.speech_started /\ result.speech_ended)
     /\ (heap[result.audio_buffer] # <<>>) <=> result.speech_ended

C9_Witness ==
  /\ call.op = "process"
  /\ result.speech_ended /\ ~result.speech_started
  /\ heap[result.audio_buffer] # <<>>

\* C10: reset() is idempotent: from every reachable state a second reset()
\* leaves what the first left (SILENCE, empty buffer, zero counters), and
\* reset() in SILENCE changes nothing.
C10_ResetIdempotent ==
  LET r1 == reset(_vad, heap)
      r2 == reset(r1.vad, r1.heap)
  IN  /\ r2 = r1
      /\ Idle(r1.vad, r1.heap)
      /\ r1.vad.buffer = _vad.buffer
      /\ _vad.state = "SILENCE" => (r1.vad = _vad /\ r1.heap = heap)
      /\ call.op = "reset" => Idle(_vad, heap)

C10_Witness == call.op = "reset" /\ call.from = "SPEECH" /\ taken >= 2

\* ---- the controller reader ----
HatNames(code) == IF code = ABS_HAT0X THEN {"dpad_left", "dpad_right"} ELSE {"dpad_up", "dpad_down"}
HatMap(code) == IF code = ABS_HAT0X THEN DPAD_X_MAP ELSE DPAD_Y_MAP
\* the direction the emitted stream says is down on a hat, "None" if none is
Held(o, code) ==
  IF o.down \cap HatNames(code) = {} THEN "None"
  ELSE CHOOSE b \in o.down \cap HatNames(code) : TRUE
IsHat(ev) == ev.type = "EV_ABS" /\ ev.code \in {ABS_HAT0X, ABS_HAT0Y}
IsKey(ev) == ev.type = "EV_KEY"
\* the step handled one raw event
Handled == rd_obs'.raw = rd_obs.raw + 1

\* C11: in the emitted button stream the presses and releases of each d-pad
\* direction strictly alternate, starting with a press: no press of a
\* direction that is down, no release of a direction that is up.
C11_DpadAlternates == rd_obs.alt_ok /\ Cardinality(rd_obs.down) <= 2

\* the same hat value twice: release, then press again
C11_Witness ==
  /\ rd_obs.raw >= 2 /\ IsHat(rd_obs.ev) /\ rd_obs.ev.value = 1
  /\ rd_obs.emitted = <<ButtonEvent("dpad_right", FALSE), ButtonEvent("dpad_right", TRUE)>>

\* C12: handling one hat event appends to the queue, adjacent and in this
\* order, the release of the direction held on that hat (if one is held) and
\* the press of the new direction (if there is one); a return to center
\* appends exactly one release and no press.
C12_ReleaseThenPress ==
  [][(Handled /\ IsHat(rd_obs'.ev)) =>
       LET old == Held(rd_obs, rd_obs'.ev.code)
           new == HatMap(rd_obs'.ev.code)[rd_obs'.ev.value]
           out == (IF old # "None" THEN <<ButtonEvent(old, FALSE)>> ELSE <<>>)
                  \o (IF new # "None" THEN <<ButtonEvent(new, TRUE)>> ELSE <<>>)
       IN  /\ rd_obs'.emitted = out
           /\ _controller'.queue = _controller.queue \o out]_vars

\* a direct change of direction, up to down
C12_Witness ==
  /\ IsHat(rd_obs.ev) /\ rd_obs.ev.code = ABS_HAT0Y
  /\ rd_obs.emitted = <<ButtonEvent("dpad_up", FALSE), ButtonEvent("dpad_down", TRUE)>>

\* C13: a raw key event emits one ButtonEvent if its code is in the mapping
\* table and its value is a press (1) or a release (0), pressed saying
\* which; any other key event (unknown code, auto-repeat) emits nothing and
\* changes no reader state.
C13_OnePerTransition ==
  [][(Handled /\ IsKey(rd_obs'.ev)) =>
       LET ev == rd_obs'.ev
       IN  IF ev.code \in DOMAIN BUTTON_CODE_MAP /\ ev.value \in {0, 1}
           THEN /\ rd_obs'.emitted = <<ButtonEvent(BUTTON_CODE_MAP[ev.code], ev.value = 1)>>
                /\ _controller'.queue = _controller.queue \o rd_obs'.emitted
           ELSE _controller' = _controller]_vars

\* C14: after stop() on a started reader the consumer of events() sees the
\* sequence end, and it has then been given exactly the events that were
\* queued before the stop.
C14_StopEndsEvents ==
  /\ []((rd_consumer.pc = "done" /\ rd_obs.stop_at >= 0) => rd_consumer.yielded = rd_obs.stop_at)
  /\ ((rd_obs.stop_at >= 0 /\ rd_consumer.pc = "iterating") ~> (rd_consumer.pc = "done"))

\* the consumer was blocked on the empty queue when stop() was called
C14_Witness ==
  /\ rd_obs.waiting /\ rd_obs.stop_at >= 1
  /\ rd_consumer.pc = "done" /\ rd_consumer.yielded = rd_obs.stop_at

PutAttempt ==
  \/ _source.kind = "bridge" /\ src_obs'.produced = src_obs.produced + 1
  \/ Len(_source'.pending) < Len(_source.pending)
\* the step appended a chunk to the queue
ChunkAppended ==
  /\ Len(_source'.queue) > Len(_source.queue)
  /\ _source'.queue[Len(_source'.queue)] # SrcSentinel
\* the step is a read of the queue by the consumer of chunks()
ConsumerRead == src_consumer.pc = "iterating" /\ Len(_source'.queue) < Len(_source.queue)

\* C16: the queue never holds more than its capacity, and a chunk produced
\* while the queue is full is dropped: the queue is left as it was and no
\* exception is raised anywhere.
C16_FullQueueDrops ==
  /\ [](Len(_source.queue) <= QUEUE_MAXSIZE)
  /\ [][(PutAttempt /\ full(_source.queue))
          => (_source'.queue = _source.queue /\ ~src_obs'.loop_error)]_vars

\* C17: once a stop() on a started source has returned, no chunk is
\* appended to the queue.
C17_NoChunkAfterStop ==
  [][(src_obs.started /\ src_obs.returned >= 1) => ~ChunkAppended]_vars

\* C18: one stop() puts one sentinel: with at most one call of stop() the
\* queue has been given at most one sentinel, the receive loop's included.
C18_OneSentinel == src_obs.stops <= 1 => src_obs.sentinels <= 1

\* C19: a call of stop() after a stop() that has returned leaves the queue
\* as the first call left it.
C19_StopIdempotent ==
  [][(src_obs'.stops = src_obs.stops + 1 /\ src_obs.returned >= 1)
       => _source'.queue = _source.queue]_vars

\* C20 as stated: after a stop() called while the consumer iterates has
\* returned, the consumer's next read of the queue returns the sentinel.
C20_NextReadIsSentinel ==
  [][(ConsumerRead /\ src_obs.iter_at_stop /\ src_obs.returned >= 1 /\ src_obs.read_after = 0)
       => src_consumer'.pc = "done"]_vars

\* C20, amended: when stop() is called while the consumer iterates, the
\* consumer never hangs: once stop() has returned a sentinel is in the
\* queue behind at most QUEUE_MAXSIZE - 1 chunks, and the consumer reads
\* the chunks queued ahead of it and then ends.
C20_ConsumerEnds ==
  /\ []((src_obs.iter_at_stop /\ src_obs.returned >= 1 /\ src_consumer.pc = "iterating")
          => \E i \in 1..QUEUE_MAXSIZE : i <= Len(_source.queue) /\ _source.queue[i] = SrcSentinel)
  /\ ((src_obs.iter_at_stop /\ src_consumer.pc = "iterating") ~> (src_consumer.pc = "done"))

\* the consumer ended after reading chunks that were queued ahead of the sentinel
C20_Witness ==
  /\ src_obs.iter_at_stop /\ src_obs.read_after = 2
  /\ src_consumer.pc = "done" /\ src_consumer.last >= 1

\* the chunk the consumer's read returns
ReadChunk == Head(_source.queue)
\* the step is a read that yields a chunk to the consumer of chunks()
ChunkYielded == ConsumerRead /\ ReadChunk.size # 0

\* C21 as stated: every chunk yielded by chunks() has CHUNK_SAMPLES samples.
C21_FixedSize == [][ChunkYielded => ReadChunk.size = CHUNK_SAMPLES]_vars

\* C21, amended: a chunk yielded by the local variant has CHUNK_SAMPLES
\* samples; a chunk yielded by the bridge variant has one sample for every
\* two bytes of the frame it came in, whatever the frame's length.
C21_SizeFollowsFrame ==
  [][ChunkYielded =>
       /\ ReadChunk.size = (IF ReadChunk.id \in src_obs.short THEN ShortFrame ELSE FullFrame) \div 2
       /\ _source.kind = "local" => ReadChunk.size = CHUNK_SAMPLES]_vars

\* a chunk from a short frame has been yielded
C21_Witness == src_consumer.last \in src_obs.short /\ _source.kind = "bridge"

\* C22: when the bridge connection is lost the receive loop makes no
\* second connection attempt and ends with its sentinel on the queue, and a
\* consumer of chunks() ends, having read every frame queued before it.
C22_LossEndsChunks ==
  /\ [](src_obs.connects <= 1)
  /\ []((src_obs.lost /\ src_obs.stops = 0 /\ _source.task = "done") => src_obs.sentinels = 1)
  /\ []((src_obs.lost /\ src_obs.stops = 0 /\ src_consumer.pc = "done") => _source.queue = <<>>)
  /\ ((src_obs.lost /\ src_consumer.pc = "iterating") ~> (src_consumer.pc = "done"))

\* the consumer ended after a loss, with no stop(), having read frames
C22_Witness ==
  /\ src_obs.lost /\ src_obs.stops = 0 /\ src_obs.avail
  /\ src_consumer.pc = "done" /\ src_consumer.last >= 2

\* C23: start() returns normally only when the capture resource has been
\* acquired, and fails with SourceUnavailableError when it cannot be.
C23_StartReportsFailure ==
  src_obs.start_result # "none" =>
    src_obs.start_result = (IF src_obs.avail THEN "returned" ELSE "SourceUnavailableError")

\* C24: after the bridge source has ended because the connection was lost
\* or could not be made, a new connection attempt follows (unless the
\* source is stopped).
C24_Reconnects ==
  (_source.kind = "bridge" /\ src_obs.lost) ~> (src_obs.connects >= 2 \/ src_obs.stops > 0)

\* C25: within one source order is preserved: the n-th event yielded by
\* events() is the n-th event the read loop produced, and the chunks
\* yielded by chunks() come in production order, without repetition, the
\* only ones left out between two of them being chunks dropped on a full queue.
C25_OrderPreserved ==
  /\ [][rd_consumer'.yielded = rd_consumer.yielded + 1
          => /\ rd_consumer'.yielded <= Len(rd_obs.hist)
             /\ rd_consumer'.last = rd_obs.hist[rd_consumer'.yielded]]_vars
  /\ [][ChunkYielded
          => /\ ReadChunk.id > src_consumer.last /\ ReadChunk.id <= src_obs.produced
             /\ \A k \in (src_consumer.last + 1) .. (ReadChunk.id - 1) : k \in src_obs.dropped]_vars

\* the consumer of events() has been given a press and then its release
C25_Witness ==
  /\ rd_consumer.yielded = 2 /\ Len(rd_obs.hist) >= 2
  /\ rd_obs.hist[1] = ButtonEvent("A", TRUE)
  /\ rd_consumer.last = ButtonEvent("A", FALSE)
\* an utterance is handed to transcribe() in this step
Submitted == Len(utterances') = Len(utterances) + 1

\* C26: with a model loaded, transcribe() returns with its task still pending,
\* its caller is not left waiting for the transcription, and the audio loop
\* can take its next chunk whenever transcriptions are pending and the source
\* has chunks left.
C26_TranscribeReturns ==
  /\ [][(Submitted /\ _recognizer._model # "None") =>
          /\ Len(utterances') \in _recognizer'._pending_tasks
          /\ _recognizer'.caller = "returned"]_vars
  /\ []((_recognizer._pending_tasks # {} /\ taken < MaxChunks) => ENABLED _audio_loop)

\* a chunk taken after the submission has been passed to process() while the
\* transcription of that utterance is still pending
C26_Witness ==
  \E id \in _recognizer._pending_tasks :
    /\ taken > utterances[id].at
    /\ call.op = "process"
    /\ call.chunk.id = taken

\* C27: the transcript callback is invoked at most once for each submitted
\* utterance and never for one submitted while no model was loaded; such a
\* submission creates no task and leaves the recognizer as it was.
C27_CallbackAtMostOnce ==
  /\ [](\A i \in DOMAIN utterances :
          /\ utterances[i].callbacks <= 1
          /\ ~utterances[i].loaded =>
                /\ utterances[i].callbacks = 0
                /\ i \notin _recognizer._pending_tasks)
  /\ [][(Submitted /\ _recognizer._model = "None") => _recognizer' = _recognizer]_vars

\* the task of an utterance submitted with a model loaded has ended after
\* invoking the callback once
C27_Witness ==
  \E i \in DOMAIN utterances :
    /\ utterances[i].loaded
    /\ utterances[i].callbacks = 1
    /\ i \notin _recognizer._pending_tasks

\* C28: while a controller event is handled the registry is called at most
\* once, and only when the event is a press of a button other than ZL whose
\* binding key is in the binding table; every other event calls nothing.
C28_SinkOncePerBoundPress ==
  /\ sink_calls <= 1
  /\ sink_calls = 1 =>
       /\ event.button \in Buttons \ {"ZL"}
       /\ event.pressed
       /\ (IF _ptt_active THEN "ZL_" \o event.button ELSE event.button) \in DOMAIN Bindings
  /\ (event.button \in Axes \/ event.button = "ZL" \/ ~event.pressed) => sink_calls = 0

\* a press of B without push-to-talk, which has no binding, called nothing
C28_Witness ==
  /\ event = [button |-> "B", pressed |-> TRUE]
  /\ ~_ptt_active
  /\ "B" \notin DOMAIN Bindings
  /\ sink_calls = 0
  /\ taken > 0

\* C29: a call of dispatch_by_string never raises, and it returns False when
\* the string is no action name, when the name has no registered handler and
\* when the handler raises.
C29_DispatchNeverRaises ==
  reg_call # NoCall =>
    /\ ~reg_call.res.raised
    /\ (\/ reg_call.action_str \notin ActionName
        \/ ~reg_call.registered
        \/ reg_call.outcome = "raises") => reg_call.res.returned = "False"

\* the handler registered for the name raised and the call returned False
C29_Witness ==
  /\ reg_call.registered
  /\ reg_call.outcome = "raises"
  /\ reg_call.res = Returns("False")

\* C30: the PTT boolean is true exactly when the last ZL event handled was a
\* press, and a step changes it only by handling a ZL event, to true on a
\* press and to false on a release: no chunk is taken and no transcription
\* ends in such a step.
C30_PttOnlyOnZL ==
  /\ [](_ptt_active = zl_down)
  /\ [][_ptt_active' # _ptt_active =>
          /\ event'.button = "ZL"
          /\ _ptt_active' = event'.pressed
          /\ taken' = taken
          /\ UNCHANGED recvars]_vars

\* push-to-talk is still active after chunks were taken and an analog event
\* was handled since the ZL press
C30_Witness ==
  /\ _ptt_active
  /\ event.button \in Axes
  /\ taken > press_at

\* C31: once setup() is over, the current status is "listening..." exactly
\* when PTT is active and "ready" exactly when it is not, in every state
\* between two handled events.
C31_StatusFollowsPtt ==
  _recognizer._model # "None" =>
    /\ (_current = "[Gamux] listening...") <=> _ptt_active
    /\ (_current = "[Gamux] ready") <=> ~_ptt_active

\* a ZL release after a ZL press during which chunks were taken
C31_Witness ==
  /\ event = [button |-> "ZL", pressed |-> FALSE]
  /\ press_at < taken
  /\ _current = "[Gamux] ready"
  /\ _recognizer._model # "None"

\* the neutral offset of the axis of the last call of _normalize
NormNeutral ==
  IF norm_call.axis = "left_y"
  THEN norm_call.config.stick_neutral_y
  ELSE norm_call.config.stick_neutral_x

\* the fraction a is at most the fraction b, both with positive denominators
FracLeq(a, b) ==
  IF a.den = b.den THEN a.num <= b.num ELSE a.num * b.den <= b.num * a.den

\* C32: for every accepted configuration and every raw value, _normalize
\* returns a value (the division is defined) in [-1, 1], 0 at the neutral and
\* within the deadzone, 1 or -1 at and beyond full deflection, and a value no
\* smaller than the one it returned for a smaller raw value of the same axis.
C32_NormalizeTotal ==
  norm_call.axis # "None" =>
    LET o == norm_call.out
        centered == norm_call.value - NormNeutral
    IN  /\ o.den > 0
        /\ -o.den <= o.num /\ o.num <= o.den
        /\ centered = 0 => o.num = 0
        /\ Abs(centered) * 100 <= norm_call.config.stick_deadzone * MAX_RANGE => o.num = 0
        /\ centered >= MAX_RANGE => o.num = o.den
        /\ centered <= -MAX_RANGE => o.num = -o.den
        /\ (/\ norm_call.prev_axis = norm_call.axis
            /\ norm_call.prev_out.den > 0
            /\ norm_call.prev_value <= norm_call.value) => FracLeq(norm_call.prev_out, o)

\* C33: when shutdown() returns, no transcription submitted before or during
\* it is still running and the pending set is empty.
C33_ShutdownAwaitsAll ==
  [][(_recognizer.shutdown # "returned" /\ _recognizer'.shutdown = "returned") =>
       /\ _recognizer'.running = {}
       /\ _recognizer'._pending_tasks = {}]_vars

\* a / b rounded to the nearest integer, a tie to the even one
Round(a, b) ==
  LET q == a \div b
      r == a % b
  IN  IF 2 * r < b THEN q
      ELSE IF 2 * r > b THEN q + 1
      ELSE IF q % 2 = 0 THEN q ELSE q + 1

\* max(1, round(silence_duration_ms / chunk_duration_ms)) for chunks as long
\* as the one just fed
RoundedSilenceChunks ==
  Max(1, Round(_vad.cfg.silence_duration_ms * _vad.cfg.sample_rate, 1000 * call.chunk.len))

\* C34: a process() call made in SPEECH ends the utterance exactly when the
\* silence chunks at the end of the run number
\* max(1, round(silence_duration_ms / chunk_duration_ms)), and the run never
\* holds more of them.
C34_SilenceChunksRounded ==
  (call.op = "process" /\ call.from = "SPEECH") =>
    /\ TrailQuiet(run) <= RoundedSilenceChunks
    /\ (_vad.state = "SILENCE") <=> (TrailQuiet(run) = RoundedSilenceChunks)

\* C35: the put of the sentinel never waits: no stop() and no receive task is
\* ever suspended in its put of the sentinel until a consumer frees a slot.
C35_SentinelNeverWaits ==
  /\ src_stop # "putting"
  /\ _source.task \notin {"putting", "putting_c"}

\* C36: the events queued by the reader never exceed the capacity of its
\* queue: whenever events are queued the queue has a capacity and holds no
\* more items than that.
C36_QueueBounded ==
  (\E i \in DOMAIN _controller.queue : _controller.queue[i] # Sentinel) =>
    /\ _controller.maxsize > 0
    /\ Len(_controller.queue) <= _controller.maxsize

\* C37: the read that ends a chunks() iteration returns the sentinel, put
\* by a stop() or by the receive loop as it ended, and never a data frame.
C37_EndsOnlyOnSentinel ==
  [][(ConsumerRead /\ src_consumer'.pc = "done") =>
       /\ ReadChunk = SrcSentinel
       /\ src_obs.stops > 0 \/ src_obs.lost]_vars

\* a sequence in reverse order
Reverse(q) == [i \in 1..Len(q) |-> q[Len(q) + 1 - i]]

\* C38: on every exit from App.run(), however it came about, stop() has been
\* called on exactly the components whose start() had returned, in the reverse
\* of the order in which they were started.
C38_StoppedInReverse ==
  app_run.pc = "exited" => app_run.stopped = Reverse(app_run.started)

\* run() is left by an exception after both components were started, and
\* both have been stopped, the controller reader first
C38_Witness ==
  /\ app_run.pc = "exited" /\ app_run.exc # "None"
  /\ app_run.started = <<"source", "controller">>
  /\ app_run.stopped = <<"controller", "source">>

\* the d-pad directions the reader holds as down
HeldDpad == {_controller.dpad_x, _controller.dpad_y} \ {"None"}

\* C39: once stop() of a started reader has put its sentinel, the read loop
\* it stops enqueues no further ButtonEvent or AnalogEvent, and the events
\* enqueued so far hold no half of a hat move: the directions down in the
\* emitted stream are the ones the reader holds.
C39_NothingAfterStop ==
  /\ [][rd_obs.stop_at >= 0 => (rd_obs'.enq = rd_obs.enq /\ rd_obs'.hist = rd_obs.hist)]_vars
  /\ [](rd_obs.stop_at >= 0 => rd_obs.down = HeldDpad)

\* stop() was called on a reading loop with a direction held and two events
\* enqueued; the cancelled loop has ended and the device is closed
C39_Witness ==
  /\ rd_obs.started /\ rd_obs.stop_at >= 2 /\ rd_obs.enq = rd_obs.stop_at
  /\ rd_obs.down # {} /\ rd_obs.raw < MaxRaw
  /\ rd_stop = "idle" /\ _controller.device = "None"
  /\ Count(_controller.queue, Sentinel) + (IF rd_consumer.pc = "done" THEN 1 ELSE 0) >= 2
====
